---- MODULE Spec2Model ----
(***************************************************************************)
(* Pipeline-parallel training over reversible layers (swarm-jax).          *)
(*                                                                         *)
(* Actors: the embedding actor (src/swarm.py EmbeddingLayer) and NLayers   *)
(* reversible layers (src/swarm.py ReversibleLayer), driven by the         *)
(* train_sample loop of src/swarm.py; the checkpointing actors of          *)
(* src/embedding_layer.py.                                                 *)
(*                                                                         *)
(* Numbers.  Tensors are exact integers.  A batch is a sequence of         *)
(* examples, a hidden vector has two features <<h1, h2>> (one per half of  *)
(* the reversible split), the vocabulary has two tokens (the code's x @    *)
(* embed needs vocab = d_model).  Parameters are counted in units of the   *)
(* learning rate, gradients in units of 1/GradUnit.  IEEE not-a-number is  *)
(* the value NaN, which every arithmetic operator propagates.              *)
(***************************************************************************)
EXTENDS Integers, Sequences, FiniteSets, TLC

VARIABLES
    state,      \* actor id -> actor state dict (0: embedding actor, 1..NLayers: layers)
    pc,         \* train_sample: the driver's position
    iter,       \* number of completed train_sample calls
    data,       \* the batch of the current train_sample call
    tasks,      \* the actor calls dispatched in the current train_sample call
    loc,        \* train_sample's local variables (object references)
    dbg,        \* the module-level dbg switch
    hist,       \* observation: faults seen, optimizer steps applied per actor
    last,       \* observation: the most recent direct actor call and what it computed
    rt,         \* round-trip harness: one forward followed by one backward
    lin,        \* accumulation harness: two calls in sequence against one concatenated call
    ck          \* checkpointing actors of embedding_layer.py and the checkpoint store

vars == <<state, pc, iter, data, tasks, loc, dbg, hist, last, rt, lin, ck>>

(***************************************************************************)
(* Bounds of the model.                                                    *)
(***************************************************************************)
NLayers == 2        \* reversible layers in the pipeline (12 in swarm.py:364)
BatchSize == 1      \* examples per training batch (16 x 128 in swarm.py:350)
MaxIter == 2        \* train_sample calls explored
MaxFaults == 1      \* actor-call faults explored per run
MaxCalls == 3       \* direct actor calls explored per run
MaxMicro == 1       \* examples per micro-batch in the harnesses
MaxW == 1           \* initial parameters range over -MaxW..MaxW

(***************************************************************************)
(* Arithmetic with not-a-number.                                           *)
(***************************************************************************)
NaN == 1000000

Add(a, b) == IF a = NaN \/ b = NaN THEN NaN ELSE a + b
Sub(a, b) == IF a = NaN \/ b = NaN THEN NaN ELSE a - b
Mul(a, b) == IF a = NaN \/ b = NaN THEN NaN ELSE a * b
Sign(a) == IF a = NaN THEN NaN ELSE IF a > 0 THEN 1 ELSE IF a < 0 THEN -1 ELSE 0

Max(a, b) == IF a >= b THEN a ELSE b

RECURSIVE SumSeq(_)
SumSeq(s) == IF s = <<>> THEN 0 ELSE Add(Head(s), SumSeq(Tail(s)))

RECURSIVE Gcd(_, _)
Gcd(a, b) == IF b = 0 THEN a ELSE Gcd(b, a % b)

RECURSIVE LcmUpTo(_)
LcmUpTo(n) == IF n <= 1 THEN 1 ELSE LET l == LcmUpTo(n - 1) IN (l * n) \div Gcd(l, n)

\* The cotangent 1 of the loss (np.ones(())), in gradient units: divisible by
\* 4 * B for every batch size B the model uses, so that means stay exact.
GradUnit == 4 * LcmUpTo(2 * Max(BatchSize, MaxMicro))

Tokens == {1, 2}
Dims == {1, 2}

ZerosLike(tree) == [k \in DOMAIN tree |-> 0]
TreeAdd(a, b) == [k \in DOMAIN a |-> Add(a[k], b[k])]

(***************************************************************************)
(* The optimizer (optax.chain(clip_by_global_norm, adam)).  With the       *)
(* moments of a fresh optimizer state Adam's update is -lr * g / |g|, and  *)
(* clipping rescales g by a positive factor: the update is -sign(g) in     *)
(* units of lr.  A non-finite gradient gives a not-a-number update.        *)
(* A gradient leaf is the fraction num / den.                              *)
(***************************************************************************)
OptimizerInit(params) == [count |-> 0]

Quot(q) == IF q.den = 0 \/ q.num = NaN THEN NaN ELSE Sign(q.num) * Sign(q.den)

OptimizerUpdate(grad, opt_state) ==
    LET bad == \E k \in DOMAIN grad : Quot(grad[k]) = NaN
    IN [updates |-> [k \in DOMAIN grad |-> IF bad THEN NaN ELSE 0 - Quot(grad[k])],
        opt_state |-> [count |-> opt_state.count + 1]]

ApplyUpdates(params, updates) == TreeAdd(params, updates)

(***************************************************************************)
(* ReversibleLayer (src/swarm.py).                                         *)
(***************************************************************************)
\* layer_init: the coupling pair (f, g) of a layer, as functions of the
\* layer's parameters: f(v) = wf * v^2, g(v) = wg * v.
LayerInit(params) ==
    [f |-> [v \in Int |-> Mul(params.wf, Mul(v, v))],
     g |-> [v \in Int |-> Mul(params.wg, v)]]

\* forward(x): y1 = f(x2) + x1; y2 = g(y1) + x2
Forward(c, x) ==
    [i \in DOMAIN x |->
        LET x1 == x[i][1]
            x2 == x[i][2]
            y1 == Add(c.f[x2], x1)
            y2 == Add(c.g[y1], x2)
        IN <<y1, y2>>]

\* reverse(y): x2 = y2 - g(y1); x1 = y1 - f(x2)
ReverseMutY2(c, y) ==
    [i \in DOMAIN y |->
        LET y1 == y[i][1]
            y2 == y[i][2]
            x2 == Sub(y2, c.g[y1])
            x1 == Sub(y1, c.f[y2])
        IN <<x1, x2>>]

ReverseForgettingG(c, y) ==
    [i \in DOMAIN y |->
        LET y1 == y[i][1]
            y2 == y[i][2]
            x2 == y2
            x1 == Sub(y1, c.f[x2])
        IN <<x1, x2>>]

Reverse(c, y) ==
    [i \in DOMAIN y |->
        LET y1 == y[i][1]
            y2 == y[i][2]
            x2 == Sub(y2, c.g[y1])
            x1 == Sub(y1, c.f[x2])
        IN <<x1, x2>>]

\* jax.vjp(self.forward_fn.apply, params, None, x) applied to the cotangent dy:
\* the derivative of forward with the couplings of LayerInit.
ForwardVjp(params, x, dy) ==
    LET wf == params.wf
        wg == params.wg
        y1(i) == Add(Mul(wf, Mul(x[i][2], x[i][2])), x[i][1])
        d1(i) == Add(dy[i][1], Mul(dy[i][2], wg))
        gwf == [i \in DOMAIN x |-> Mul(d1(i), Mul(x[i][2], x[i][2]))]
        gwg == [i \in DOMAIN x |-> Mul(dy[i][2], y1(i))]
    IN [weights_grad |-> [wf |-> SumSeq(gwf), wg |-> SumSeq(gwg)],
        x_grad |-> [i \in DOMAIN x |->
            <<d1(i), Add(dy[i][2], Mul(d1(i), Mul(2, Mul(wf, x[i][2]))))>>]]

\* init_fn: the state dict of a freshly constructed actor
InitFn(params) ==
    [step |-> 0,
     rng |-> 0,
     opt_state |-> OptimizerInit(params),
     grad_acc |-> ZerosLike(params),
     grad_count |-> 0,
     params |-> params]

\* forward_fn(x, state)
ForwardFn(x, st) == Forward(LayerInit(st.params), x)

\* reverse_fn(y_dy, state): returns (reconstr_x, x_grad) and the new state
ReverseFnOverwriting(y_dy, st) ==
    LET y == y_dy[1]
        dy == y_dy[2]
        reconstr_x == Reverse(LayerInit(st.params), y)
        v == ForwardVjp(st.params, reconstr_x, dy)
    IN [out |-> <<reconstr_x, v.x_grad>>,
        state |-> [st EXCEPT !.grad_acc = v.weights_grad,
                             !.grad_count = @ + 1]]

ReverseFn(y_dy, st) ==
    LET y == y_dy[1]
        dy == y_dy[2]
        reconstr_x == Reverse(LayerInit(st.params), y)
        v == ForwardVjp(st.params, reconstr_x, dy)
    IN [out |-> <<reconstr_x, v.x_grad>>,
        state |-> [st EXCEPT !.grad_acc = TreeAdd(@, v.weights_grad),
                             !.grad_count = @ + 1]]

\* grad_to_cpu over grad_acc: every leaf divided by state['grad_count']
GradCpu(st) == [k \in DOMAIN st.grad_acc |-> [num |-> st.grad_acc[k], den |-> st.grad_count]]

\* opt(state): the optimizer's new state is a local that is dropped
OptKeepingCount(st) ==
    LET u == OptimizerUpdate(GradCpu(st), st.opt_state)
    IN [st EXCEPT !.params = ApplyUpdates(@, u.updates),
                  !.grad_acc = ZerosLike(@)]

Opt(st) ==
    LET u == OptimizerUpdate(GradCpu(st), st.opt_state)
    IN [st EXCEPT !.params = ApplyUpdates(@, u.updates),
                  !.grad_acc = ZerosLike(@),
                  !.grad_count = 0]

(***************************************************************************)
(* EmbeddingLayer (src/swarm.py).  Its parameter tree is the embedding     *)
(* table, one leaf per <<token, feature>>.                                 *)
(***************************************************************************)
\* embed_forward(x): table lookup by token id
EmbedForward(params, obs) ==
    [i \in DOMAIN obs |-> <<params[<<obs[i], 1>>], params[<<obs[i], 2>>]>>]

\* debed_forward(x): x @ embed
DebedForward(params, x) ==
    [i \in DOMAIN x |->
        <<Add(Mul(x[i][1], params[<<1, 1>>]), Mul(x[i][2], params[<<2, 1>>])),
          Add(Mul(x[i][1], params[<<1, 2>>]), Mul(x[i][2], params[<<2, 2>>]))>>]

\* jax.nn.softmax of two logits, rounded to quarters (in units of 1/4):
\* equal logits share evenly, the larger logit takes three quarters.
Softmax(l) ==
    IF l[1] = NaN \/ l[2] = NaN THEN <<NaN, NaN>>
    ELSE IF l[1] = l[2] THEN <<2, 2>>
    ELSE IF l[1] > l[2] THEN <<3, 1>> ELSE <<1, 3>>

\* jax.vjp(self.debed_loss_fn.apply, params, None, hidden, target) applied to
\* the cotangent 1: loss is the mean over the batch of the cross-entropy, so
\* every example's gradient (softmax - onehot) carries the factor 1 / B.
\* The loss itself is kept as the softmax weight of each example's target.
DebedLossVjp(params, hidden, target) ==
    LET B == Len(hidden)
        scale == GradUnit \div (4 * B)
        logits == DebedForward(params, hidden)
        p(i) == Softmax(logits[i])
        gl(i, j) == Mul(Sub(p(i)[j], IF target[i] = j THEN 4 ELSE 0), scale)
    IN [loss |-> [i \in DOMAIN hidden |-> p(i)[target[i]]],
        weights_grad |-> [kj \in DOMAIN params |->
            SumSeq([i \in DOMAIN hidden |-> Mul(hidden[i][kj[1]], gl(i, kj[2]))])],
        x_grad |-> [i \in DOMAIN hidden |->
            <<Add(Mul(params[<<1, 1>>], gl(i, 1)), Mul(params[<<1, 2>>], gl(i, 2))),
              Add(Mul(params[<<2, 1>>], gl(i, 1)), Mul(params[<<2, 2>>], gl(i, 2)))>>]]

\* jax.vjp(self.embed_fwd_fn.apply, params, None, obs) applied to dy:
\* a table row collects the cotangents of the examples that looked it up.
EmbedVjp(params, obs, dy) ==
    [kj \in DOMAIN params |->
        SumSeq([i \in DOMAIN obs |-> IF obs[i] = kj[1] THEN dy[i][kj[2]] ELSE 0])]

\* jnp.square(y - y_new).mean(), as the fraction num / den
SquareMean(y, y_new) ==
    LET sq(i, j) == Mul(Sub(y[i][j], y_new[i][j]), Sub(y[i][j], y_new[i][j]))
    IN [num |-> SumSeq([i \in DOMAIN y |-> Add(sq(i, 1), sq(i, 2))]),
        den |-> 2 * Len(y)]

\* embed_fwd_fn(obs, state)
EmbedFwdFn(obs, st) == EmbedForward(st.params, obs)

\* embed_grad_fn(obs, y_dy, state): returns diff and the new state
EmbedGradFn(obs, y_dy, st) ==
    LET y == y_dy[1]
        dy == y_dy[2]
        y_new == EmbedForward(st.params, obs)
        weights_grad == EmbedVjp(st.params, obs, dy)
    IN [out |-> SquareMean(y, y_new),
        state |-> [st EXCEPT !.grad_acc = TreeAdd(@, weights_grad),
                             !.grad_count = @ + 1]]

\* debed_fwd_fn(target, state)
DebedFwdFn(h, st) == DebedForward(st.params, h)

\* debed_grad_fn(hidden, target, state): returns hidden, x_grad, loss and the new state
DebedGradFnNotCounting(hidden, target, st) ==
    LET v == DebedLossVjp(st.params, hidden, target)
    IN [out |-> <<hidden, v.x_grad>>,
        loss |-> v.loss,
        state |-> [st EXCEPT !.grad_acc = TreeAdd(@, v.weights_grad)]]

DebedGradFn(hidden, target, st) ==
    LET v == DebedLossVjp(st.params, hidden, target)
    IN [out |-> <<hidden, v.x_grad>>,
        loss |-> v.loss,
        state |-> [st EXCEPT !.grad_acc = TreeAdd(@, v.weights_grad),
                             !.grad_count = @ + 1]]

\* EmbeddingLayer's opt(state): the same code as ReversibleLayer's
EmbOpt(st) ==
    LET u == OptimizerUpdate(GradCpu(st), st.opt_state)
    IN [st EXCEPT !.params = ApplyUpdates(@, u.updates),
                  !.grad_acc = ZerosLike(@),
                  !.grad_count = 0]

(***************************************************************************)
(* Inputs.                                                                 *)
(***************************************************************************)
Weights == (0 - MaxW)..MaxW
Feature == {-1, 0, 1}
Hidden == Feature \X Feature
Cotangent == {0, 1} \X {0, 1}

\* sequences over S of length n, and of length 1..n
SeqOfLen(S, n) == [1..n -> S]
SeqUpTo(S, n) == UNION {SeqOfLen(S, k) : k \in 1..n}

LayerParams == [wf : Weights, wg : Weights]

(***************************************************************************)
(* Variables a specification does not use stay at these values.            *)
(***************************************************************************)
TrainOff ==
    /\ pc = "off" /\ iter = 0 /\ data = <<>> /\ tasks = <<>> /\ loc = <<>>
    /\ dbg = FALSE /\ hist = <<>>
ActorsOff == state = <<>> /\ last = <<>>
RTOff == rt = <<>>
LinOff == lin = <<>>
CkOff == ck = <<>>

trainVars == <<pc, iter, data, tasks, loc, dbg, hist>>

(***************************************************************************)
(* Round trip: forward on x, then backward on (forward(x), dy), on one     *)
(* ReversibleLayer.  The couplings are either arbitrary tables f, g, with  *)
(* backward's reconstruction self.reverse_fn.apply, or the couplings of a  *)
(* parameter set, with the whole of reverse_fn.                            *)
(***************************************************************************)
TableArg == 0..MaxW
TableMid == 0..(2 * MaxW)

\* a table as a coupling transform: any argument outside the table maps to 0
Total(t) == [v \in Int |-> IF v \in DOMAIN t THEN t[v] ELSE 0]

RTCoupling == [f |-> Total(rt.tf), g |-> Total(rt.tg)]

RTInit ==
    \/ \E tf \in [TableArg -> TableArg], tg \in [TableMid -> TableArg],
          x \in SeqOfLen(TableArg \X TableArg, 1) :
          rt = [phase |-> "init", kind |-> "table", tf |-> tf, tg |-> tg,
                st |-> InitFn([wf |-> 0, wg |-> 0]), x |-> x, dy |-> <<>>,
                y |-> <<>>, out |-> <<>>]
    \/ \E p \in LayerParams, x \in SeqUpTo(Hidden, MaxMicro) :
          \E dy \in SeqOfLen(Cotangent, Len(x)) :
              rt = [phase |-> "init", kind |-> "params", tf |-> <<>>, tg |-> <<>>,
                    st |-> InitFn(p), x |-> x, dy |-> dy, y |-> <<>>, out |-> <<>>]

RTFrame == UNCHANGED <<state, last, lin, ck, pc, iter, data, tasks, loc, dbg, hist>>

RTForwardTable ==
    /\ rt.phase = "init" /\ rt.kind = "table"
    /\ rt' = [rt EXCEPT !.phase = "fwd", !.y = Forward(RTCoupling, rt.x)]
    /\ RTFrame

RTReverseTable ==
    /\ rt.phase = "fwd" /\ rt.kind = "table"
    /\ rt' = [rt EXCEPT !.phase = "bwd", !.out = <<Reverse(RTCoupling, rt.y), <<>> >>]
    /\ RTFrame

\* ReversibleLayer.forward(h)
RTForward ==
    /\ rt.phase = "init" /\ rt.kind = "params"
    /\ rt' = [rt EXCEPT !.phase = "fwd", !.y = ForwardFn(rt.x, rt.st)]
    /\ RTFrame

\* ReversibleLayer.backward(y_dy)
RTBackward ==
    /\ rt.phase = "fwd" /\ rt.kind = "params"
    /\ LET r == ReverseFn(<<rt.y, rt.dy>>, rt.st)
       IN rt' = [rt EXCEPT !.phase = "bwd", !.out = r.out, !.st = r.state]
    /\ RTFrame

RTNext == RTForwardTable \/ RTReverseTable \/ RTForward \/ RTBackward

InitRT == RTInit /\ TrainOff /\ ActorsOff /\ LinOff /\ CkOff

SpecRT == InitRT /\ [][RTNext]_vars

\* C1: after forward(x) and then backward((forward(x), gradY)) on the same
\* parameters, the reconstructed input returned by backward equals x, for every
\* coupling pair, every input x and every gradY.
RoundTripExact == rt.phase = "bwd" => rt.out[1] = rt.x

\* a round trip has run on an input whose forward image differs from it
RoundTripWitness ==
    /\ rt.phase = "bwd" /\ rt.kind = "params" /\ rt.y # rt.x /\ rt.out[1] = rt.x
    /\ rt.dy # [i \in DOMAIN rt.dy |-> <<0, 0>>]

(***************************************************************************)
(* The actors' remote methods.  A call takes the method's argument and the *)
(* actor's state and gives the call's results and the state the actor      *)
(* holds afterwards.  arg.x is the object passed (a hidden batch, or a     *)
(* pair y_dy), arg.obs and arg.target the token batches.                   *)
(***************************************************************************)
None == <<>>

Layers == 1..NLayers
Actors == 0..NLayers
EmbeddingActor == 0

\* ReversibleLayer.forward / backward / opt
LayerCallCounting(method, arg, st) ==
    CASE method = "forward" ->
            [out |-> ForwardFn(arg.x, st), loss |-> None,
             state |-> [st EXCEPT !.grad_count = @ + 1]]
      [] method = "backward" ->
            LET r == ReverseFn(arg.x, st)
            IN [out |-> r.out, loss |-> None, state |-> r.state]
      [] method = "opt" ->
            [out |-> None, loss |-> None, state |-> Opt(st)]

LayerCall(method, arg, st) ==
    CASE method = "forward" ->
            [out |-> ForwardFn(arg.x, st), loss |-> None, state |-> st]
      [] method = "backward" ->
            LET r == ReverseFn(arg.x, st)
            IN [out |-> r.out, loss |-> None, state |-> r.state]
      [] method = "opt" ->
            [out |-> None, loss |-> None, state |-> Opt(st)]

\* EmbeddingLayer.embed_forward / embed_grad / debed_forward / debed_grad / opt
EmbeddingCall(method, arg, st) ==
    CASE method = "embed_forward" ->
            [out |-> EmbedFwdFn(arg.obs, st), loss |-> None, state |-> st]
      [] method = "embed_grad" ->
            LET r == EmbedGradFn(arg.obs, arg.x, st)
            IN [out |-> r.out, loss |-> None, state |-> r.state]
      [] method = "debed_forward" ->
            [out |-> DebedFwdFn(arg.x, st), loss |-> None, state |-> st]
      [] method = "debed_grad" ->
            LET r == DebedGradFn(arg.x, arg.target, st)
            IN [out |-> r.out, loss |-> r.loss, state |-> r.state]
      [] method = "opt" ->
            [out |-> None, loss |-> None, state |-> EmbOpt(st)]

Call(a, method, arg, st) ==
    IF a = EmbeddingActor THEN EmbeddingCall(method, arg, st) ELSE LayerCall(method, arg, st)

(***************************************************************************)
(* Construction (swarm.py:358-383): every actor holds the state init_fn    *)
(* built; the warm-up calls of the constructors discard what they return.  *)
(***************************************************************************)
Seeds == {MaxW, 0 - MaxW}

EmbeddingSeed(w) == [kj \in Tokens \X Dims |-> IF kj[1] = kj[2] THEN w ELSE 0]
LayerSeed(w) == [wf |-> w, wg |-> 0 - w]

Constructed(seed) ==
    [a \in Actors |->
        IF a = EmbeddingActor THEN InitFn(EmbeddingSeed(seed[a])) ELSE InitFn(LayerSeed(seed[a]))]

\* train_dataset.get_samples(): a batch of token ids and targets
Batches == [obs : SeqOfLen(Tokens, BatchSize), target : SeqOfLen(Tokens, BatchSize)]

(***************************************************************************)
(* The actor runtime (ray).  A remote call appends a task; its object      *)
(* reference is the task's index.  An actor runs its tasks one at a time   *)
(* in the order they were submitted; a task whose argument object failed   *)
(* fails without running; ray.wait returns once the object is ready or     *)
(* failed and never raises; ray.get raises the failure of a failed object. *)
(***************************************************************************)
Task(a, method, dep, obs, target) ==
    [actor |-> a, method |-> method, dep |-> dep, obs |-> obs, target |-> target,
     status |-> "queued", out |-> None, loss |-> None]

Submit(a, method, dep, obs, target) == Append(tasks, Task(a, method, dep, obs, target))

NewRef == Len(tasks) + 1

Complete(ref) == tasks[ref].status # "queued"

\* the next task of actor a, 0 when it has none
Head1(a) ==
    LET q == {t \in DOMAIN tasks : tasks[t].actor = a /\ tasks[t].status = "queued"}
    IN IF q = {} THEN 0 ELSE CHOOSE t \in q : \A u \in q : t <= u

DepsReady(t) ==
    IF t = 0 THEN FALSE ELSE IF tasks[t].dep = 0 THEN TRUE ELSE Complete(tasks[t].dep)
DepsFailed(t) ==
    IF t = 0 THEN FALSE
    ELSE IF tasks[t].dep = 0 THEN FALSE ELSE tasks[tasks[t].dep].status = "error"

TaskArg(t) ==
    [x |-> IF tasks[t].dep = 0 THEN None ELSE tasks[tasks[t].dep].out,
     obs |-> tasks[t].obs, target |-> tasks[t].target]

harnessVars == <<last, rt, lin, ck>>

\* actor a runs its next task to completion
Exec(a) ==
    LET t == Head1(a) IN
    /\ pc # "off"
    /\ DepsReady(t)
    /\ ~DepsFailed(t)
    /\ LET r == Call(a, tasks[t].method, TaskArg(t), state[a])
       IN /\ state' = [state EXCEPT ![a] = r.state]
          /\ tasks' = [tasks EXCEPT ![t].status = "ready", ![t].out = r.out,
                                    ![t].loss = r.loss]
    /\ hist' = IF tasks[t].method = "opt"
               THEN [hist EXCEPT !.applied[a] = @ + 1] ELSE hist
    /\ UNCHANGED <<pc, iter, data, loc, dbg, harnessVars>>

\* the next task of actor a raises inside the actor: its objects hold the
\* error and the actor keeps the state it had
Fault(a) ==
    LET t == Head1(a) IN
    /\ pc # "off"
    /\ DepsReady(t)
    /\ ~DepsFailed(t)
    /\ hist.faults < MaxFaults
    /\ tasks' = [tasks EXCEPT ![t].status = "error"]
    /\ hist' = [hist EXCEPT !.faults = @ + 1,
                            !.faultIter = IF @ = -1 THEN iter ELSE @]
    /\ UNCHANGED <<state, pc, iter, data, loc, dbg, harnessVars>>

\* the next task of actor a has a failed argument: it fails without running
DepFault(a) ==
    LET t == Head1(a) IN
    /\ pc # "off"
    /\ DepsFailed(t)
    /\ tasks' = [tasks EXCEPT ![t].status = "error"]
    /\ UNCHANGED <<state, pc, iter, data, loc, dbg, hist, harnessVars>>

(***************************************************************************)
(* train_sample and the training loop (swarm.py:387-435).                  *)
(***************************************************************************)
driverFrame == <<state, hist, dbg, harnessVars>>

\* while True: train_sample() -- data = get_samples(); x = embed_forward.remote(obs).
\* The references of the call before are dropped with its locals.
GetSamples ==
    /\ pc = "start" /\ iter < MaxIter
    /\ \E b \in Batches :
        /\ data' = b
        /\ tasks' = <<Task(EmbeddingActor, "embed_forward", 0, b.obs, None)>>
    /\ loc' = [x |-> 1, y_dy |-> 0, loss |-> 0, error |-> 0, opts |-> <<>>,
               fwd_activations |-> <<>>, bwd_activations |-> <<>>, l |-> 1]
    /\ pc' = "wait_embed"
    /\ UNCHANGED <<iter, driverFrame>>

\* ray.wait([x])
WaitEmbed ==
    /\ pc = "wait_embed" /\ Complete(loc.x)
    /\ pc' = "fwd_loop"
    /\ UNCHANGED <<iter, data, tasks, loc, driverFrame>>

\* for l in layers: [fwd_activations.append(x)]; x = l.forward.remote(x)
FwdDispatch ==
    /\ pc = "fwd_loop"
    /\ tasks' = Submit(loc.l, "forward", loc.x, None, None)
    /\ loc' = [loc EXCEPT !.x = NewRef,
                          !.fwd_activations = IF dbg THEN Append(@, loc.x) ELSE @]
    /\ pc' = "fwd_wait"
    /\ UNCHANGED <<iter, data, driverFrame>>

\* ray.wait([x]), and the next layer
FwdWaitNoWait ==
    /\ pc = "fwd_wait"
    /\ loc' = [loc EXCEPT !.l = IF @ < NLayers THEN @ + 1 ELSE @]
    /\ pc' = IF loc.l < NLayers THEN "fwd_loop" ELSE "debed"
    /\ UNCHANGED <<iter, data, tasks, driverFrame>>

FwdWait ==
    /\ pc = "fwd_wait" /\ Complete(loc.x)
    /\ loc' = [loc EXCEPT !.l = IF @ < NLayers THEN @ + 1 ELSE @]
    /\ pc' = IF loc.l < NLayers THEN "fwd_loop" ELSE "debed"
    /\ UNCHANGED <<iter, data, tasks, driverFrame>>

\* y_dy, loss = debed_grad.remote(x, target)
DebedDispatch ==
    /\ pc = "debed"
    /\ tasks' = Submit(EmbeddingActor, "debed_grad", loc.x, None, data.target)
    /\ loc' = [loc EXCEPT !.y_dy = NewRef, !.loss = NewRef]
    /\ pc' = "debed_wait"
    /\ UNCHANGED <<iter, data, driverFrame>>

\* ray.wait([y_dy])
DebedWait ==
    /\ pc = "debed_wait" /\ Complete(loc.y_dy)
    /\ loc' = [loc EXCEPT !.l = NLayers]
    /\ pc' = "bwd_loop"
    /\ UNCHANGED <<iter, data, tasks, driverFrame>>

\* for l in reversed(layers): y_dy = l.backward.remote(y_dy)
BwdDispatch ==
    /\ pc = "bwd_loop"
    /\ tasks' = Submit(loc.l, "backward", loc.y_dy, None, None)
    /\ loc' = [loc EXCEPT !.y_dy = NewRef]
    /\ pc' = "bwd_wait"
    /\ UNCHANGED <<iter, data, driverFrame>>

\* ray.wait([y_dy]); [bwd_activations.append(y_dy)], and the layer before
BwdWait ==
    /\ pc = "bwd_wait" /\ Complete(loc.y_dy)
    /\ loc' = [loc EXCEPT !.l = IF @ > 1 THEN @ - 1 ELSE @,
                          !.bwd_activations = IF dbg THEN Append(@, loc.y_dy) ELSE @]
    /\ pc' = IF loc.l > 1 THEN "bwd_loop" ELSE "embed_grad"
    /\ UNCHANGED <<iter, data, tasks, driverFrame>>

\* error = embed_grad.remote(obs, y_dy)
EmbedGradDispatch ==
    /\ pc = "embed_grad"
    /\ tasks' = Submit(EmbeddingActor, "embed_grad", loc.y_dy, data.obs, None)
    /\ loc' = [loc EXCEPT !.error = NewRef]
    /\ pc' = "embed_grad_wait"
    /\ UNCHANGED <<iter, data, driverFrame>>

\* ray.wait([error])
EmbedGradWait ==
    /\ pc = "embed_grad_wait" /\ Complete(loc.error)
    /\ pc' = "get_loss"
    /\ UNCHANGED <<iter, data, tasks, loc, driverFrame>>

\* print(ray.get(loss)): raises when debed_grad failed, and the exception
\* leaves train_sample and the loop
GetLoss ==
    /\ pc = "get_loss"
    /\ pc' = IF tasks[loc.loss].status = "error" THEN "raised" ELSE "opt_dispatch"
    /\ loc' = [loc EXCEPT !.l = 0]
    /\ UNCHANGED <<iter, data, tasks, driverFrame>>

\* opts = [embedding_actor.opt.remote()]; for l in layers: opts.append(l.opt.remote())
OptDispatch ==
    /\ pc = "opt_dispatch"
    /\ tasks' = Submit(loc.l, "opt", 0, None, None)
    /\ loc' = [loc EXCEPT !.opts = Append(@, NewRef),
                          !.l = IF @ < NLayers THEN @ + 1 ELSE @]
    /\ pc' = IF loc.l < NLayers THEN "opt_dispatch" ELSE "opt_wait"
    /\ UNCHANGED <<iter, data, driverFrame>>

\* i[0] for i in ray.get(bwd_activations), reversed: the reconstructions by stage
BwdByStageNotReversed == [i \in DOMAIN loc.bwd_activations |-> loc.bwd_activations[i]]

BwdByStage ==
    [i \in DOMAIN loc.bwd_activations |->
        loc.bwd_activations[Len(loc.bwd_activations) + 1 - i]]

\* jnp.allclose(f, b, rtol=1e-4, atol=1e-4) on exact tensors: not-a-number is
\* close to nothing
AllClose(f, b) ==
    \A i \in DOMAIN f : \A j \in Dims :
        f[i][j] # NaN /\ b[i][j] # NaN /\ f[i][j] = b[i][j]

\* zip(fwd_activations, bwd_activations): every assertion passes
OraclePasses ==
    \A i \in DOMAIN loc.fwd_activations :
        AllClose(tasks[loc.fwd_activations[i]].out, tasks[BwdByStage[i]].out[1])

OracleRaises ==
    \E i \in DOMAIN loc.fwd_activations :
        \/ tasks[loc.fwd_activations[i]].status = "error"
        \/ tasks[loc.bwd_activations[i]].status = "error"

\* ray.wait(opts, num_returns=len(opts)); if dbg: the oracle; return
OptWaitAny ==
    /\ pc = "opt_wait" /\ \E o \in DOMAIN loc.opts : Complete(loc.opts[o])
    /\ pc' = IF dbg THEN "oracle" ELSE "start"
    /\ iter' = IF dbg THEN iter ELSE iter + 1
    /\ UNCHANGED <<data, tasks, loc, driverFrame>>

OptWait ==
    /\ pc = "opt_wait" /\ \A o \in DOMAIN loc.opts : Complete(loc.opts[o])
    /\ pc' = IF dbg THEN "oracle" ELSE "start"
    /\ iter' = IF dbg THEN iter ELSE iter + 1
    /\ UNCHANGED <<data, tasks, loc, driverFrame>>

\* if dbg: ray.get of the cached references, the assertions, return
Oracle ==
    /\ pc = "oracle"
    /\ pc' = IF OracleRaises THEN "raised"
             ELSE IF OraclePasses THEN "start" ELSE "assert_failed"
    /\ iter' = IF ~OracleRaises /\ OraclePasses THEN iter + 1 ELSE iter
    /\ UNCHANGED <<data, tasks, loc, driverFrame>>

Init ==
    /\ \E seed \in [Actors -> Seeds] : state = Constructed(seed)
    /\ pc = "start" /\ iter = 0 /\ data = None /\ tasks = <<>> /\ loc = None
    /\ dbg \in BOOLEAN
    /\ hist = [faults |-> 0, faultIter |-> -1, applied |-> [a \in Actors |-> 0]]
    /\ last = <<>> /\ RTOff /\ LinOff /\ CkOff

Next ==
    \/ GetSamples \/ WaitEmbed \/ FwdDispatch \/ FwdWait
    \/ DebedDispatch \/ DebedWait \/ BwdDispatch \/ BwdWait
    \/ EmbedGradDispatch \/ EmbedGradWait \/ GetLoss
    \/ OptDispatch \/ OptWait \/ Oracle
    \/ \E a \in Actors : Exec(a)
    \/ \E a \in Actors : Fault(a)
    \/ \E a \in Actors : DepFault(a)

Spec == Init /\ [][Next]_vars

(***************************************************************************)
(* Properties of the training loop (Spec).                                 *)
(***************************************************************************)
TasksOf(a, method) ==
    {t \in DOMAIN tasks : tasks[t].actor = a /\ tasks[t].method = method}
InFlight == {t \in DOMAIN tasks : tasks[t].status = "queued"}
ForwardType == {"embed_forward", "forward", "debed_forward"}
BeforeStep ==
    {"wait_embed", "fwd_loop", "fwd_wait", "debed", "debed_wait", "bwd_loop",
     "bwd_wait", "embed_grad", "embed_grad_wait", "get_loss"}
Returned == pc = "start" /\ iter > 0

FailFast == hist.faultIter # -1 => iter = hist.faultIter

\* C6: before the step phase at most one actor call is in flight; a call that
\* consumes another call's result is dispatched only when that result is ready;
\* layer i's forward consumes layer i-1's forward (embed_forward for the first
\* layer), debed_grad consumes the last layer's forward, layer i's backward
\* consumes layer i+1's backward (debed_grad for the last layer); and each layer
\* gets exactly one forward and one backward per batch.
StrictSequencing ==
    /\ pc \in BeforeStep => Cardinality(InFlight) <= 1
    /\ \A t \in DOMAIN tasks : tasks[t].dep # 0 => Complete(tasks[t].dep)
    /\ \A t \in DOMAIN tasks :
        LET a == tasks[t].actor
            d == tasks[t].dep
        IN /\ tasks[t].method = "forward" =>
                /\ d < t
                /\ tasks[d].method = IF a = 1 THEN "embed_forward" ELSE "forward"
                /\ tasks[d].actor = a - 1
           /\ tasks[t].method = "debed_grad" =>
                d < t /\ tasks[d].method = "forward" /\ tasks[d].actor = NLayers
           /\ tasks[t].method = "backward" =>
                /\ d < t
                /\ tasks[d].method = IF a = NLayers THEN "debed_grad" ELSE "backward"
                /\ tasks[d].actor = IF a = NLayers THEN EmbeddingActor ELSE a + 1
    /\ \A a \in Layers :
        /\ Cardinality(TasksOf(a, "forward")) <= 1
        /\ Cardinality(TasksOf(a, "backward")) <= 1
        /\ pc \in {"embed_grad", "embed_grad_wait", "get_loss", "opt_dispatch", "opt_wait"} =>
            /\ Cardinality(TasksOf(a, "forward")) = 1
            /\ Cardinality(TasksOf(a, "backward")) = 1

\* the backward chain has reached the first layer with every call so far done
StrictSequencingWitness ==
    /\ pc = "embed_grad" /\ InFlight = {}
    /\ \A t \in DOMAIN tasks : tasks[t].status = "ready"
    /\ Len(tasks) = 2 * NLayers + 2

\* C7: with dbg set, index i of the oracle pairs the object fed to stage i's
\* forward with the result of stage i's backward; in a step without faults the
\* cached input equals the reconstructed input at every stage; and the oracle's
\* assertion never fails.
DebugOracle ==
    /\ pc = "oracle" =>
        \A i \in Layers :
            /\ tasks[BwdByStage[i]].method = "backward" /\ tasks[BwdByStage[i]].actor = i
            /\ \E t \in TasksOf(i, "forward") : tasks[t].dep = loc.fwd_activations[i]
    /\ (pc = "oracle" /\ hist.faults = 0) =>
        \A i \in Layers :
            tasks[loc.fwd_activations[i]].out = tasks[BwdByStage[i]].out[1]
    /\ pc # "assert_failed"

\* the oracle runs on the second batch, after a step, on stages whose inputs differ
DebugOracleWitness ==
    /\ pc = "oracle" /\ iter = 1 /\ hist.faults = 0 /\ OraclePasses
    /\ \A i \in Layers : \A j \in Layers :
            i # j => tasks[loc.fwd_activations[i]].out # tasks[loc.fwd_activations[j]].out

(***************************************************************************)
(* Direct calls: a client calls the remote methods of one actor, one call  *)
(* after the other, in any order and with any arguments.                   *)
(***************************************************************************)
DirectHidden == SeqOfLen(Hidden, 1)
DirectCotangent == SeqOfLen(Cotangent, 1)
DirectTokens == SeqOfLen(Tokens, 1)

actorFrame == <<pc, iter, data, tasks, loc, dbg, hist, rt, lin, ck>>

\* the call's effect on the actor, and what the observer keeps of it
Direct(a, method, arg) ==
    /\ a = last.actor
    /\ LET r == Call(a, method, arg, state[a])
       IN state' = [state EXCEPT ![a] = r.state]
    /\ last' = [n |-> last.n + 1, actor |-> a, method |-> method, pre |-> state,
                grad_cpu |-> IF method = "opt" THEN GradCpu(state[a]) ELSE None]
    /\ UNCHANGED actorFrame

CallForward ==
    \E a \in Layers, x \in DirectHidden :
        /\ last.n < MaxCalls
        /\ Direct(a, "forward", [x |-> x, obs |-> None, target |-> None])

CallBackward ==
    \E a \in Layers, y \in DirectHidden, dy \in DirectCotangent :
        /\ last.n < MaxCalls
        /\ Direct(a, "backward", [x |-> <<y, dy>>, obs |-> None, target |-> None])

CallOpt ==
    \E a \in Layers :
        /\ last.n < MaxCalls
        /\ Direct(a, "opt", [x |-> None, obs |-> None, target |-> None])

CallEmbedForward ==
    \E obs \in DirectTokens :
        /\ last.n < MaxCalls
        /\ Direct(EmbeddingActor, "embed_forward", [x |-> None, obs |-> obs, target |-> None])

CallEmbedGrad ==
    \E obs \in DirectTokens, y \in DirectHidden, dy \in DirectCotangent :
        /\ last.n < MaxCalls
        /\ Direct(EmbeddingActor, "embed_grad", [x |-> <<y, dy>>, obs |-> obs, target |-> None])

CallDebedForward ==
    \E h \in DirectHidden :
        /\ last.n < MaxCalls
        /\ Direct(EmbeddingActor, "debed_forward", [x |-> h, obs |-> None, target |-> None])

CallDebedGrad ==
    \E h \in DirectHidden, target \in DirectTokens :
        /\ last.n < MaxCalls
        /\ Direct(EmbeddingActor, "debed_grad", [x |-> h, obs |-> None, target |-> target])

CallEmbOpt ==
    /\ last.n < MaxCalls
    /\ Direct(EmbeddingActor, "opt", [x |-> None, obs |-> None, target |-> None])

InitActor ==
    /\ \E w \in Seeds : state = Constructed([a \in Actors |-> w])
    /\ \E a \in Actors :
        last = [n |-> 0, actor |-> a, method |-> "none", pre |-> None, grad_cpu |-> None]
    /\ TrainOff /\ RTOff /\ LinOff /\ CkOff

NextActor ==
    \/ CallForward \/ CallBackward \/ CallOpt
    \/ CallEmbedForward \/ CallEmbedGrad \/ CallDebedForward \/ CallDebedGrad \/ CallEmbOpt

SpecActor == InitActor /\ [][NextActor]_vars

Called == last.method # "none"
Callee == state[last.actor]
CalleeBefore == last.pre[last.actor]
GradientCalls == {"backward", "embed_grad", "debed_grad"}

\* C4: right after an actor's opt() has returned, whatever calls came before, the
\* actor's grad_count is 0 and its grad_acc has the leaves of its params, all 0.
ResetPostcondition ==
    (Called /\ last.method = "opt") =>
        /\ Callee.grad_count = 0
        /\ DOMAIN Callee.grad_acc = DOMAIN Callee.params
        /\ \A k \in DOMAIN Callee.grad_acc : Callee.grad_acc[k] = 0

\* opt() has returned on an actor that had accumulated a non-zero gradient over
\* two gradient calls
ResetWitness ==
    /\ Called /\ last.method = "opt"
    /\ CalleeBefore.grad_count = 2
    /\ \E k \in DOMAIN CalleeBefore.grad_acc : CalleeBefore.grad_acc[k] # 0
    /\ Callee.grad_count = 0

\* C5: the gradient opt() hands to the optimizer is grad_acc divided by
\* max(grad_count, 1), leaf by leaf: the divisor is 1 when grad_count is 0.
StepDivisor ==
    (Called /\ last.method = "opt") =>
        \A k \in DOMAIN CalleeBefore.grad_acc :
            last.grad_cpu[k] = [num |-> CalleeBefore.grad_acc[k],
                                den |-> Max(CalleeBefore.grad_count, 1)]

\* C9: a call changes the callee's params only if it is opt, its grad_acc or
\* grad_count only if it is a gradient call or opt, and a forward-type call
\* leaves the callee's whole state as it was; no call touches another actor.
MutationDiscipline ==
    Called =>
        /\ Callee.params # CalleeBefore.params => last.method = "opt"
        /\ (Callee.grad_acc # CalleeBefore.grad_acc
                \/ Callee.grad_count # CalleeBefore.grad_count) =>
                    last.method \in GradientCalls \cup {"opt"}
        /\ last.method \in ForwardType => Callee = CalleeBefore
        /\ \A b \in Actors \ {last.actor} : state[b] = last.pre[b]

\* an opt() call has changed the callee's params
MutationWitness ==
    /\ Called /\ last.method = "opt" /\ Callee.params # CalleeBefore.params
    /\ \A k \in DOMAIN Callee.params : Callee.params[k] # NaN

(***************************************************************************)
(* Accumulation: from one parameter snapshot, one actor takes a gradient   *)
(* call on micro-batch A and then one on micro-batch B, and a second copy  *)
(* of the actor takes one gradient call on the concatenation of A and B.   *)
(***************************************************************************)
LinHidden == {-1, 1} \X {0, 1}
LinTarget == {<<0, 0>>, <<1, 1>>}
LinCotangent == {<<1, 0>>, <<0, 1>>}

\* the micro-batches of a gradient call of the given kind
MicroBatches(kind) ==
    UNION {
        CASE kind = "backward" ->
                [obs : {None}, x : SeqOfLen(LinHidden, n), dy : SeqOfLen(LinCotangent, n),
                 target : {None}]
          [] kind = "embed_grad" ->
                [obs : SeqOfLen(Tokens, n), x : SeqOfLen(LinTarget, n),
                 dy : SeqOfLen(LinCotangent, n), target : {None}]
          [] kind = "debed_grad" ->
                [obs : {None}, x : SeqOfLen(LinHidden, n), dy : {None},
                 target : SeqOfLen(Tokens, n)]
        : n \in 1..MaxMicro}

\* concatenation along the batch axis
Concat(A, B) ==
    [obs |-> A.obs \o B.obs, x |-> A.x \o B.x, dy |-> A.dy \o B.dy,
     target |-> A.target \o B.target]

LinActor(kind) == IF kind = "backward" THEN 1 ELSE EmbeddingActor

\* the state the actor holds after the gradient call on micro-batch mb
GradCall(kind, mb, st) ==
    LET arg == [x |-> IF kind = "debed_grad" THEN mb.x ELSE <<mb.x, mb.dy>>,
                obs |-> mb.obs, target |-> mb.target]
    IN Call(LinActor(kind), kind, arg, st).state

LinFrame == UNCHANGED <<state, last, rt, ck, pc, iter, data, tasks, loc, dbg, hist>>

\* the gradient call on A
LinFirst ==
    /\ lin.nseq = 0
    /\ lin' = [lin EXCEPT !.nseq = 1, !.seq = GradCall(lin.kind, lin.A, lin.seq)]
    /\ LinFrame

\* the gradient call on B, after the one on A
LinSecond ==
    /\ lin.nseq = 1
    /\ lin' = [lin EXCEPT !.nseq = 2, !.seq = GradCall(lin.kind, lin.B, lin.seq)]
    /\ LinFrame

\* the one gradient call on the concatenation of A and B
LinConcat ==
    /\ lin.ncat = 0
    /\ lin' = [lin EXCEPT !.ncat = 1,
                          !.cat = GradCall(lin.kind, Concat(lin.A, lin.B), lin.cat)]
    /\ LinFrame

InitLin ==
    /\ \E kind \in GradientCalls, w \in Seeds :
        \E A \in MicroBatches(kind), B \in MicroBatches(kind) :
            LET st == Constructed([a \in Actors |-> w])[LinActor(kind)]
            IN lin = [kind |-> kind, A |-> A, B |-> B, seq |-> st, cat |-> st,
                      nseq |-> 0, ncat |-> 0]
    /\ TrainOff /\ ActorsOff /\ RTOff /\ CkOff

NextLin == LinFirst \/ LinSecond \/ LinConcat

SpecLin == InitLin /\ [][NextLin]_vars

LinDone == lin.nseq = 2 /\ lin.ncat = 1

\* C10 as stated: the accumulated gradient held after the calls on A and on B in
\* sequence equals the accumulated gradient held after the one call on the
\* concatenation of A and B.
Linearity == LinDone => lin.seq.grad_acc = lin.cat.grad_acc

\* C10: from one parameter snapshot with nothing accumulated, the calls on A and
\* on B in sequence leave grad_count 2 where the one call on the concatenation
\* leaves 1, and neither changes params; for backward and embed_grad grad_acc is
\* the same after both; for debed_grad, whose loss is the mean over the batch,
\* on micro-batches of equal size grad_acc after the sequence is twice grad_acc
\* after the concatenated call.
LinearityOfSums ==
    LinDone =>
        /\ lin.seq.grad_count = 2 /\ lin.cat.grad_count = 1
        /\ lin.seq.params = lin.cat.params
        /\ lin.kind \in {"backward", "embed_grad"} => lin.seq.grad_acc = lin.cat.grad_acc
        /\ (lin.kind = "debed_grad" /\ Len(lin.A.x) = Len(lin.B.x)) =>
                \A k \in DOMAIN lin.seq.grad_acc :
                    lin.seq.grad_acc[k] = 2 * lin.cat.grad_acc[k]

\* both runs are done on two different micro-batches whose gradients are not zero
LinearityWitness ==
    /\ LinDone /\ lin.A # lin.B
    /\ \E k \in DOMAIN lin.cat.grad_acc : lin.cat.grad_acc[k] # 0
    /\ \A k \in DOMAIN lin.seq.grad_acc : lin.seq.grad_acc[k] # NaN
    /\ lin.seq.grad_acc # lin.cat.grad_acc

(***************************************************************************)
(* The checkpointing actors (src/embedding_layer.py): EmbeddingLayer with  *)
(* a positional embedding, and ProjLayer, a layer norm followed by a       *)
(* linear projection.  A parameter leaf is <<module, row, column>>.        *)
(* grad_count is kept in halves, so that 0.5 is exact.                     *)
(***************************************************************************)
Half == 1
One == 2

ELKeys == ({"pos_embs"} \X {1} \X Dims) \cup ({"embedding"} \X Tokens \X Dims)
ProjKeys ==
    ({"scale", "offset"} \X Dims \X {0}) \cup ({"w"} \X Dims \X Tokens)
        \cup ({"b"} \X {0} \X Tokens)

\* the parameters embed_fwd_fn.init and proj_fwd_fn.init draw, by seed
ELSeed(w) ==
    [k \in ELKeys |-> IF k[1] = "pos_embs" THEN w ELSE IF k[2] = k[3] THEN w ELSE 0]
ProjSeed(w) ==
    [k \in ProjKeys |->
        CASE k[1] = "scale" -> 1
          [] k[1] = "offset" -> 0
          [] k[1] = "w" -> IF k[2] = k[3] THEN w ELSE 0
          [] k[1] = "b" -> 0]

\* EmbeddingLayer: init_fn
ELInitFn(params) ==
    [step |-> 0,
     rng |-> 0,
     opt_state |-> OptimizerInit(params),
     grad_acc |-> ZerosLike(params),
     grad_count |-> 0,
     params |-> params]

\* embed_forward(x): hk.Embed(x) + positional_embeddings, one position per example
ELEmbedForward(params, obs) ==
    [i \in DOMAIN obs |->
        <<Add(params[<<"embedding", obs[i], 1>>], params[<<"pos_embs", 1, 1>>]),
          Add(params[<<"embedding", obs[i], 2>>], params[<<"pos_embs", 1, 2>>])>>]

\* jax.vjp(self.embed_fwd_fn.apply, params, None, obs) applied to dy
ELEmbedVjp(params, obs, dy) ==
    [k \in DOMAIN params |->
        SumSeq([i \in DOMAIN obs |->
            IF k[1] = "pos_embs" \/ obs[i] = k[2] THEN dy[i][k[3]] ELSE 0])]

\* embed_fwd_fn(obs, state)
ELEmbedFwdFn(obs, st) == ELEmbedForward(st.params, obs)

\* embed_grad_fn(obs, y_dy, state): grad_count + 0.5
ELEmbedGradFn(obs, y_dy, st) ==
    LET y == y_dy[1]
        dy == y_dy[2]
        y_new == ELEmbedForward(st.params, obs)
        weights_grad == ELEmbedVjp(st.params, obs, dy)
    IN [out |-> SquareMean(y, y_new),
        state |-> [st EXCEPT !.grad_acc = TreeAdd(@, weights_grad),
                             !.grad_count = @ + Half]]

\* ProjLayer: init_fn
ProjInitFn(params) ==
    [step |-> 0,
     rng |-> 0,
     opt_state |-> OptimizerInit(params),
     grad_acc |-> ZerosLike(params),
     grad_count |-> 0,
     params |-> params]

\* hk.LayerNorm over two features, before scale and offset: the features are
\* centred and divided by their deviation, which leaves the sign of their
\* difference (eps = 1e-5 is below the model's resolution)
Normalize(x) == <<Sign(Sub(x[1], x[2])), Sign(Sub(x[2], x[1]))>>

\* layer_norm(x)
LayerNorm(params, x) ==
    [i \in DOMAIN x |->
        [j \in Dims |->
            Add(Mul(params[<<"scale", j, 0>>], Normalize(x[i])[j]),
                params[<<"offset", j, 0>>])]]

\* debed_forward(x): hk.Linear(vocab)(layer_norm(x))
ProjDebedForward(params, x) ==
    LET ln == LayerNorm(params, x)
    IN [i \in DOMAIN x |->
        [k \in Tokens |->
            Add(Add(Mul(ln[i][1], params[<<"w", 1, k>>]),
                    Mul(ln[i][2], params[<<"w", 2, k>>])),
                params[<<"b", 0, k>>])]]

\* jax.vjp(self.proj_loss_fn.apply, params, None, hidden, target) applied to
\* the cotangent 1.  The normalisation is locally constant in x, so x_grad is 0.
\* (ln, p and gl range over singletons: each tensor is computed once.)
ProjLossVjp(params, hidden, target) ==
    LET B == Len(hidden)
        scale == GradUnit \div (4 * B)
        n == [i \in DOMAIN hidden |-> Normalize(hidden[i])]
        Probs(logits) == [i \in DOMAIN hidden |-> Softmax(logits[i])]
        LogitsGrad(p) ==
            [i \in DOMAIN hidden |->
                [k \in Tokens |-> Mul(Sub(p[i][k], IF target[i] = k THEN 4 ELSE 0), scale)]]
        NormGrad(gl) ==
            [i \in DOMAIN hidden |->
                [j \in Dims |-> Add(Mul(params[<<"w", j, 1>>], gl[i][1]),
                                    Mul(params[<<"w", j, 2>>], gl[i][2]))]]
        leaf(i, key, ln, gl, dln) ==
            CASE key[1] = "w" -> Mul(ln[i][key[2]], gl[i][key[3]])
              [] key[1] = "b" -> gl[i][key[3]]
              [] key[1] = "scale" -> Mul(n[i][key[2]], dln[i][key[2]])
              [] key[1] = "offset" -> dln[i][key[2]]
    IN CHOOSE r \in
        {[loss |-> [i \in DOMAIN hidden |-> p[i][target[i]]],
          weights_grad |-> [key \in DOMAIN params |->
              SumSeq([i \in DOMAIN hidden |-> leaf(i, key, ln, gl, NormGrad(gl))])],
          x_grad |-> [i \in DOMAIN hidden |-> <<0, 0>>]] :
            ln \in {LayerNorm(params, hidden)},
            p \in {Probs(ProjDebedForward(params, hidden))},
            gl \in {LogitsGrad(Probs(ProjDebedForward(params, hidden)))}} : TRUE

\* debed_fwd_fn(target, state)
ProjDebedFwdFn(h, st) == ProjDebedForward(st.params, h)

\* debed_grad_fn(hidden, target, state): grad_count + 1
ProjDebedGradFn(hidden, target, st) ==
    LET v == ProjLossVjp(st.params, hidden, target)
    IN [out |-> <<hidden, v.x_grad>>,
        loss |-> v.loss,
        state |-> [st EXCEPT !.grad_acc = TreeAdd(@, v.weights_grad),
                             !.grad_count = @ + One]]

(***************************************************************************)
(* swarm_layer, the module embedding_layer.py imports save_checkpoint,     *)
(* load_checkpoint and opt_state from.  The checkpoint store keeps, for    *)
(* every path and epoch, the snapshot saved there or None.                 *)
(***************************************************************************)
MaxOps == 4         \* calls on a checkpointing actor explored per run

Paths == {"a", "b"}
Epochs == {0, 1}

EmptyStore == [p \in Paths |-> [e \in Epochs |-> None]]

\* save_checkpoint(state, path, epoch)
SaveCheckpoint(store, st, path, epoch) == [store EXCEPT ![path][epoch] = st]

\* the epochs a snapshot is stored for under path
Saved(store, path) == {e \in Epochs : store[path][e] # None}

\* load_checkpoint(path): the latest snapshot, None when there is none
LoadCheckpoint(store, path) ==
    IF Saved(store, path) = {} THEN None
    ELSE store[path][CHOOSE e \in Saved(store, path) : \A f \in Saved(store, path) : f <= e]

\* opt_state(state, optimizer): the step on grad_acc / max(grad_count, 1)
OptState(st) ==
    LET grad == [k \in DOMAIN st.grad_acc |->
                    [num |-> Mul(st.grad_acc[k], One), den |-> Max(st.grad_count, One)]]
        u == OptimizerUpdate(grad, st.opt_state)
    IN [st EXCEPT !.params = ApplyUpdates(@, u.updates),
                  !.grad_acc = ZerosLike(@),
                  !.grad_count = 0]

(***************************************************************************)
(* The remote methods of the checkpointing actors.  A call gives the       *)
(* value it returns, the state the actor holds afterwards and the store.   *)
(***************************************************************************)
\* bool(v) of a checkpoint: None and the empty dict are false
Truthy(v) == v # None

PyTrue == "True"
PyNone == "None"

\* EmbeddingLayer.load(path): without a checkpoint the method falls off its end
ELLoadKeeping(ckpt, st) == [ret |-> IF Truthy(ckpt) THEN PyTrue ELSE PyNone, state |-> st]

ELLoad(ckpt, st) ==
    IF Truthy(ckpt) THEN [ret |-> PyTrue, state |-> ckpt] ELSE [ret |-> PyNone, state |-> st]

\* ProjLayer.load(path)
ProjLoad(ckpt, st) ==
    IF Truthy(ckpt) THEN [ret |-> PyTrue, state |-> ckpt] ELSE [ret |-> PyNone, state |-> st]

\* EmbeddingLayer.embed_forward / embed_grad / opt / save / load
ELCall(method, arg, st, store) ==
    CASE method = "embed_forward" ->
            [ret |-> ELEmbedFwdFn(arg.obs, st), state |-> st, store |-> store]
      [] method = "embed_grad" ->
            LET r == ELEmbedGradFn(arg.obs, arg.x, st)
            IN [ret |-> r.out, state |-> r.state, store |-> store]
      [] method = "opt" ->
            [ret |-> PyNone, state |-> OptState(st), store |-> store]
      [] method = "save" ->
            [ret |-> PyNone, state |-> st,
             store |-> SaveCheckpoint(store, st, arg.path, arg.epoch)]
      [] method = "load" ->
            LET r == ELLoad(LoadCheckpoint(store, arg.path), st)
            IN [ret |-> r.ret, state |-> r.state, store |-> store]

\* ProjLayer.debed_forward / debed_grad / opt / save / load
ProjCall(method, arg, st, store) ==
    CASE method = "debed_forward" ->
            [ret |-> ProjDebedFwdFn(arg.x, st), state |-> st, store |-> store]
      [] method = "debed_grad" ->
            LET r == ProjDebedGradFn(arg.x, arg.target, st)
            IN [ret |-> <<r.out, r.loss>>, state |-> r.state, store |-> store]
      [] method = "opt" ->
            [ret |-> PyNone, state |-> OptState(st), store |-> store]
      [] method = "save" ->
            [ret |-> PyNone, state |-> st,
             store |-> SaveCheckpoint(store, st, arg.path, arg.epoch)]
      [] method = "load" ->
            LET r == ProjLoad(LoadCheckpoint(store, arg.path), st)
            IN [ret |-> r.ret, state |-> r.state, store |-> store]

(***************************************************************************)
(* A client calls the methods of one checkpointing actor, one call after   *)
(* the other, in any order.                                                *)
(***************************************************************************)
CkFrame == UNCHANGED <<state, last, rt, lin, pc, iter, data, tasks, loc, dbg, hist>>

NoArg == [x |-> None, obs |-> None, target |-> None, path |-> None, epoch |-> 0]

\* the call's effect, and what the observer keeps of it: the method, its
\* path, the state and the store before the call, the returned value of load
CkCall(kind, method, arg) ==
    /\ ck.kind = kind
    /\ LET r == IF kind = "EmbeddingLayer" THEN ELCall(method, arg, ck.state, ck.store)
                ELSE ProjCall(method, arg, ck.state, ck.store)
       IN ck' = [ck EXCEPT !.state = r.state, !.store = r.store, !.n = @ + 1,
                           !.op = method, !.path = arg.path, !.pre = ck.state,
                           !.ret = IF method = "load" THEN r.ret ELSE PyNone,
                           !.rets = IF method = "load" THEN @ \cup {r.ret} ELSE @]
    /\ CkFrame

CkEmbedForward ==
    \E obs \in DirectTokens :
        /\ ck.n < MaxOps
        /\ CkCall("EmbeddingLayer", "embed_forward", [NoArg EXCEPT !.obs = obs])

CkEmbedGrad ==
    \E obs \in DirectTokens, dy \in SeqOfLen(LinCotangent, 1) :
        /\ ck.n < MaxOps
        /\ CkCall("EmbeddingLayer", "embed_grad",
                  [NoArg EXCEPT !.obs = obs, !.x = <<ELEmbedFwdFn(obs, ck.state), dy>>])

CkDebedForward ==
    \E h \in SeqOfLen(LinCotangent, 1) :
        /\ ck.n < MaxOps
        /\ CkCall("ProjLayer", "debed_forward", [NoArg EXCEPT !.x = h])

CkDebedGrad ==
    \E h \in SeqOfLen(LinCotangent, 1), target \in DirectTokens :
        /\ ck.n < MaxOps
        /\ CkCall("ProjLayer", "debed_grad", [NoArg EXCEPT !.x = h, !.target = target])

CkOpt ==
    \E kind \in {"EmbeddingLayer", "ProjLayer"} :
        /\ ck.n < MaxOps
        /\ CkCall(kind, "opt", NoArg)

CkSave ==
    \E kind \in {"EmbeddingLayer", "ProjLayer"}, path \in Paths, epoch \in Epochs :
        /\ ck.n < MaxOps
        /\ CkCall(kind, "save", [NoArg EXCEPT !.path = path, !.epoch = epoch])

CkLoad ==
    \E kind \in {"EmbeddingLayer", "ProjLayer"}, path \in Paths :
        /\ ck.n < MaxOps
        /\ CkCall(kind, "load", [NoArg EXCEPT !.path = path])

InitCk ==
    /\ \E kind \in {"EmbeddingLayer", "ProjLayer"} :
        ck = [kind |-> kind,
              state |-> IF kind = "EmbeddingLayer" THEN ELInitFn(ELSeed(MaxW))
                        ELSE ProjInitFn(ProjSeed(MaxW)),
              store |-> EmptyStore, n |-> 0, op |-> "none", path |-> None,
              pre |-> None, ret |-> PyNone, rets |-> {}]
    /\ TrainOff /\ ActorsOff /\ RTOff /\ LinOff

NextCk ==
    \/ CkEmbedForward \/ CkEmbedGrad \/ CkDebedForward \/ CkDebedGrad
    \/ CkOpt \/ CkSave \/ CkLoad

SpecCk == InitCk /\ [][NextCk]_vars

\* the epochs a snapshot is stored for under the path of the last call
Found == Saved(ck.store, ck.path)

\* C8: a load(path) that finds no snapshot under path returns no true value
\* (the method returns nothing: Python's None, which is false) and leaves the
\* whole state dict (params, opt_state, grad_acc, grad_count, rng, step) as it
\* was; a load(path) that finds one returns True and leaves the actor holding
\* exactly the latest snapshot saved under that path, every field of it.
LoadContract ==
    ck.op = "load" =>
        /\ Found = {} => (ck.ret # PyTrue /\ ck.state = ck.pre)
        /\ Found # {} =>
            /\ ck.ret = PyTrue
            /\ \E e \in Found :
                /\ \A f \in Found : f <= e
                /\ ck.state = ck.store[ck.path][e]

\* a load has replaced a state that had taken gradients since the snapshot was
\* saved, in a run where a load had found no snapshot before
LoadWitness ==
    /\ ck.op = "load" /\ ck.ret = PyTrue /\ ck.state # ck.pre
    /\ ck.rets = {PyTrue, PyNone}
    /\ ck.pre.grad_count > 0

\* C11: a gradient call of the actors of embedding_layer.py (embed_grad,
\* debed_grad) leaves grad_count one higher than it found it, so that grad_count
\* is a whole number, the number of gradient calls since construction or the
\* last opt.
GradCountByOne ==
    ck.op \in {"embed_grad", "debed_grad"} =>
        /\ ck.state.grad_count = ck.pre.grad_count + One
        /\ ck.state.grad_count % One = 0

(***************************************************************************)
(* Further properties of the training loop (Spec) and of opt (SpecActor).  *)
(***************************************************************************)
\* the embed_forward call of the current batch is the first call dispatched
EmbedForwardRef == 1

\* C12: in a run without faults the object train_sample passes to embed_grad is
\* the result of the first layer's backward; its first component, the
\* reconstructed input of the first layer, equals the result of embed_forward(obs)
\* of the same batch; and the diff embed_grad returns is 0.
ClosingTheLoop ==
    hist.faults = 0 =>
        \A t \in TasksOf(EmbeddingActor, "embed_grad") :
            LET d == tasks[t].dep
            IN /\ tasks[d].method = "backward" /\ tasks[d].actor = 1
               /\ tasks[t].obs = data.obs
               /\ tasks[d].out[1] = tasks[EmbedForwardRef].out
               /\ tasks[t].status = "ready" => tasks[t].out.num = 0

\* embed_grad has returned in the second batch, after a step, on a gradient that
\* is not zero and on an embedding output the pipeline has changed
ClosingTheLoopWitness ==
    /\ hist.faults = 0 /\ iter = 1
    /\ \E t \in TasksOf(EmbeddingActor, "embed_grad") :
        /\ tasks[t].status = "ready" /\ tasks[t].out.num = 0
        /\ \E i \in DOMAIN tasks[tasks[t].dep].out[2] :
                tasks[tasks[t].dep].out[2][i] # <<0, 0>>
        /\ \E u \in TasksOf(NLayers, "forward") :
                tasks[u].out # tasks[EmbedForwardRef].out

\* C13 as stated: in a run without faults every actor's grad_count is 0 when a
\* train_sample call starts, and 1 for every actor, the embedding actor
\* included, when the opt calls are about to be dispatched.
CadenceOne ==
    hist.faults = 0 =>
        /\ pc = "start" => \A a \in Actors : state[a].grad_count = 0
        /\ (pc = "opt_dispatch" /\ loc.l = 0) => \A a \in Actors : state[a].grad_count = 1

\* C13: in a run without faults every actor's grad_count is 0 when a
\* train_sample call starts; when the opt calls are about to be dispatched it is
\* 1 for every reversible layer and 2 for the embedding actor, which has taken
\* debed_grad and embed_grad in that step: the layers' accumulated gradient is
\* divided by 1, the embedding actor's by 2.
Cadence ==
    hist.faults = 0 =>
        /\ pc = "start" => \A a \in Actors : state[a].grad_count = 0
        /\ (pc = "opt_dispatch" /\ loc.l = 0) =>
            /\ \A a \in Layers : state[a].grad_count = 1
            /\ state[EmbeddingActor].grad_count = 2
            /\ Cardinality(TasksOf(EmbeddingActor, "debed_grad")) = 1
            /\ Cardinality(TasksOf(EmbeddingActor, "embed_grad")) = 1

\* the opt calls of the second batch are about to be dispatched
CadenceWitness ==
    /\ hist.faults = 0 /\ iter = 1 /\ pc = "opt_dispatch" /\ loc.l = 0
    /\ state[EmbeddingActor].grad_count = 2
    /\ \A a \in Actors : hist.applied[a] = 1

\* C14: opt() leaves in the actor's opt_state the optimizer state that
\* optimizer.update returned for this step, so that the next opt() starts from it
\* and not from the one optimizer.init made.
OptStateStored ==
    (Called /\ last.method = "opt") =>
        /\ Callee.opt_state =
                OptimizerUpdate(GradCpu(CalleeBefore), CalleeBefore.opt_state).opt_state
        /\ Callee.opt_state # OptimizerInit(Callee.params)

====
